---- MODULE Spec2Model ----
(***************************************************************************)
(* Model of geocode-sqlite's geocoding run: geocode() in                   *)
(* src/geocode_sqlite/cli.py, together with the helpers it imports from    *)
(* geocode_sqlite.utils (select_ungeocoded, geocode_list) and geopy's      *)
(* RateLimiter, which are modelled from their documented contracts.        *)
(***************************************************************************)
EXTENDS Integers, Sequences, FiniteSets, TLC

\* ---------------------------------------------------------------- bounds
NumRows == 3        \* rows in the table
MaxRuns == 2        \* invocations of the command against the same table
MaxDelay == 1       \* largest --delay explored (clock ticks)
MaxDur == 1         \* longest provider call explored (clock ticks)

\* ------------------------------------------------------------ vocabulary
Null == "NULL"
LatCol == "latitude"
LonCol == "longitude"
GeoCol == "geocoder"
BaseColumns == {"id", "location"}
GeoColumns == {LatCol, LonCol, GeoCol}
ProviderName == "provider"
OldLat == "10.0"
OldLon == "20.0"
FoundCoords == {[latitude |-> "51.5", longitude |-> "-0.1"]}
Outcomes == {"Found", "NotFound", "Error"}
PKs == 1..NumRows

\* A location template is the sequence of column names it references:
\* "{location}" (the default), "{location}, {country}" and a template
\* without replacement fields.
DefaultTemplate == <<"location">>
Templates == {DefaultTemplate, <<"location", "country">>, <<>>}
Delays == 0..MaxDelay

VARIABLES
    table,      \* the stored rows: pk -> (column name -> value)
    columns,    \* table.columns_dict
    location,   \* --location template
    delay,      \* --delay
    pc,         \* position of geocode()
    run,        \* number of the current invocation
    prev,       \* how the previous invocation ended
    now,        \* the clock
    limiter,    \* the RateLimiter object
    rows,       \* the sequence returned by select_ungeocoded
    count,      \* the count returned by select_ungeocoded
    pos,        \* rows the generator has taken from rows
    cur,        \* the generator's current row (<<row>> or <<>>)
    query,      \* the rendered location query (<<q>> or <<>>)
    pair,       \* the pair the for loop is handling (<<[row, success]>> or <<>>)
    done,       \* done
    errors,     \* errors
    out,        \* lines echoed by the summary
    ei,         \* index of the summary's loop over errors
    exception,  \* the exception that ended the run, or "none"
    startTable, \* history: the table when the invocation started
    calls,      \* history: the provider invocations of this run
    yielded,    \* history: the pairs yielded by geocode_list in this run
    updates     \* history: the pks passed to table.update in this run

vars == <<table, columns, location, delay, pc, run, prev, now, limiter, rows,
          count, pos, cur, query, pair, done, errors, out, ei, exception,
          startTable, calls, yielded, updates>>

\* -------------------------------------------------------------- helpers
Coord(row, c) == IF c \in DOMAIN row THEN row[c] ELSE Null

NoLimiter == [created |-> FALSE, min_delay_seconds |-> 0,
              has_last_call |-> FALSE, last_call |-> 0]

NoPrev == [status |-> "none", allFound |-> FALSE]

NewRow(pk, lat, lon) ==
    [c \in BaseColumns \cup GeoColumns |->
        CASE c = "id" -> pk
          [] c = "location" -> "somewhere"
          [] c = LatCol -> lat
          [] c = LonCol -> lon
          [] OTHER -> IF lat # Null /\ lon # Null THEN "earlier" ELSE Null]

BareRow(pk) ==
    [c \in BaseColumns |-> IF c = "id" THEN pk ELSE "somewhere"]

\* a row of a table that has coordinates but no geocoder column yet
CoordRow(pk) ==
    [c \in BaseColumns \cup {LatCol, LonCol} |->
        CASE c = "id" -> pk
          [] c = "location" -> "somewhere"
          [] c = LatCol -> OldLat
          [] OTHER -> OldLon]

\* the coordinate pairs a stored row can start with: none, one of them, both
StartCoords == {<<Null, Null>>, <<OldLat, Null>>, <<Null, OldLon>>,
                <<OldLat, OldLon>>}

\* table.add_column(name, type): every stored row gets the column, as null
add_column(tbl, cols, name) ==
    [pk \in DOMAIN tbl |->
        [c \in cols \cup {name} |-> IF c = name THEN Null ELSE tbl[pk][c]]]

RECURSIVE AddColumns(_, _, _)
AddColumns(tbl, cols, names) ==
    IF names = {} THEN tbl
    ELSE LET n == CHOOSE x \in names : TRUE
         IN AddColumns(add_column(tbl, cols, n), cols \cup {n}, names \ {n})

\* select_ungeocoded: the rows whose latitude or longitude is null, in
\* table order, and their count
RECURSIVE SelectFrom(_, _, _, _)
SelectFrom(tbl, pk, latitude_column, longitude_column) ==
    IF pk > NumRows THEN <<>>
    ELSE (IF tbl[pk][latitude_column] = Null \/ tbl[pk][longitude_column] = Null
          THEN <<tbl[pk]>> ELSE <<>>)
         \o SelectFrom(tbl, pk + 1, latitude_column, longitude_column)

select_ungeocoded(tbl, latitude_column, longitude_column) ==
    LET sel == SelectFrom(tbl, 1, latitude_column, longitude_column)
    IN [rows |-> sel, count |-> Len(sel)]

\* rendering the template with the row's fields as keyword arguments
Renders(template, row) ==
    \A i \in 1..Len(template) : template[i] \in DOMAIN row

Render(template, row) ==
    [i \in 1..Len(template) |-> row[template[i]]]

\* cli.py line 120, location.format(row): the row is the single positional
\* argument, so a named replacement field finds no keyword argument
SummaryFormats(template, row) == Len(template) = 0

SummaryFormat(template, row) == <<>>

\* ----------------------------------------------------------------- Init
Init ==
    /\ \/ /\ columns = BaseColumns \cup GeoColumns
          /\ \E f \in [PKs -> StartCoords] :
                table = [pk \in PKs |-> NewRow(pk, f[pk][1], f[pk][2])]
       \/ /\ columns = BaseColumns
          /\ table = [pk \in PKs |-> BareRow(pk)]
       \/ /\ columns = BaseColumns \cup {LatCol, LonCol}
          /\ table = [pk \in PKs |-> CoordRow(pk)]
    /\ location \in Templates
    /\ delay \in Delays
    /\ pc = "start"
    /\ run = 1
    /\ prev = NoPrev
    /\ now = 0
    /\ limiter = NoLimiter
    /\ rows = <<>>
    /\ count = 0
    /\ pos = 0
    /\ cur = <<>>
    /\ query = <<>>
    /\ pair = <<>>
    /\ done = 0
    /\ errors = <<>>
    /\ out = <<>>
    /\ ei = 0
    /\ exception = "none"
    /\ startTable = table
    /\ calls = <<>>
    /\ yielded = <<>>
    /\ updates = <<>>

\* -------------------------------------------------------------- actions
\* lines 80-90: add the latitude, longitude and geocoder columns when absent,
\* in that order; an add_column that fails ends the run, the columns added
\* before it stay
IsAbsent(c) == c \notin columns

Missing == SelectSeq(<<LatCol, LonCol, GeoCol>>, IsAbsent)

Range(seq) == {seq[i] : i \in 1..Len(seq)}

PrepareSchema_Recreate ==
    /\ pc = "start"
    /\ table' = AddColumns(table, columns, GeoColumns)
    /\ columns' = columns \cup GeoColumns
    /\ pc' = "limiter"
    /\ UNCHANGED exception
    /\ UNCHANGED <<location, delay, run, prev, now, limiter, rows, count, pos,
                   cur, query, pair, done, errors, out, ei, startTable, calls,
                   yielded, updates>>

PrepareSchema ==
    /\ pc = "start"
    /\ \/ /\ table' = AddColumns(table, columns, Range(Missing))
          /\ columns' = columns \cup Range(Missing)
          /\ pc' = "limiter"
          /\ UNCHANGED exception
       \/ \E k \in 1..Len(Missing) :
             LET added == Range(SubSeq(Missing, 1, k - 1))
             IN /\ table' = AddColumns(table, columns, added)
                /\ columns' = columns \cup added
                /\ pc' = "aborted"
                /\ exception' = "SchemaError"
    /\ UNCHANGED <<location, delay, run, prev, now, limiter, rows, count, pos,
                   cur, query, pair, done, errors, out, ei, startTable, calls,
                   yielded, updates>>

\* lines 92-93: geocode = RateLimiter(geocoder.geocode, min_delay_seconds=delay)
CreateLimiter_ZeroDelay ==
    /\ pc = "limiter"
    /\ limiter' = [created |-> TRUE, min_delay_seconds |-> 0,
                   has_last_call |-> FALSE, last_call |-> 0]
    /\ pc' = "select"
    /\ UNCHANGED <<table, columns, location, delay, run, prev, now, rows,
                   count, pos, cur, query, pair, done, errors, out, ei,
                   exception, startTable, calls, yielded, updates>>

CreateLimiter ==
    /\ pc = "limiter"
    /\ limiter' = [created |-> TRUE, min_delay_seconds |-> delay,
                   has_last_call |-> FALSE, last_call |-> 0]
    /\ pc' = "select"
    /\ UNCHANGED <<table, columns, location, delay, run, prev, now, rows,
                   count, pos, cur, query, pair, done, errors, out, ei,
                   exception, startTable, calls, yielded, updates>>

\* lines 95-104: rows, count = select_ungeocoded(...); done = 0; errors = [];
\* gen = geocode_list(rows, geocode, location, ...)
SelectRows_SameColumn ==
    /\ pc = "select"
    /\ LET r == select_ungeocoded(table, LatCol, LatCol)
       IN /\ rows' = r.rows
          /\ count' = r.count
    /\ done' = 0
    /\ errors' = <<>>
    /\ pos' = 0
    /\ pc' = "next"
    /\ UNCHANGED <<table, columns, location, delay, run, prev, now, limiter,
                   cur, query, pair, out, ei, exception, startTable, calls,
                   yielded, updates>>

SelectRows ==
    /\ pc = "select"
    /\ LET r == select_ungeocoded(table, LatCol, LonCol)
       IN /\ rows' = r.rows
          /\ count' = r.count
    /\ done' = 0
    /\ errors' = <<>>
    /\ pos' = 0
    /\ pc' = "next"
    /\ UNCHANGED <<table, columns, location, delay, run, prev, now, limiter,
                   cur, query, pair, out, ei, exception, startTable, calls,
                   yielded, updates>>

\* geocode_list, first half of one iteration: take the next row and render the
\* location template against it; the end of rows ends the for loop
GenNext ==
    /\ pc = "next"
    /\ IF pos = Len(rows)
       THEN /\ pc' = "summary"
            /\ UNCHANGED <<pos, cur, query, exception>>
       ELSE /\ pos' = pos + 1
            /\ cur' = <<rows[pos + 1]>>
            /\ IF Renders(location, rows[pos + 1])
               THEN /\ query' = <<Render(location, rows[pos + 1])>>
                    /\ pc' = "wait"
                    /\ UNCHANGED exception
               ELSE /\ query' = <<>>
                    /\ pc' = "raised"
                    /\ exception' = "TemplateError"
    /\ UNCHANGED <<table, columns, location, delay, run, prev, now, limiter,
                   rows, count, pair, done, errors, out, ei, startTable,
                   calls, yielded, updates>>

\* the rate limiter's call: block until min_delay_seconds have passed since
\* the start of the previous call, note the time, start the provider call
Dispatch ==
    /\ pc = "wait"
    /\ LET wait == IF limiter.has_last_call
                   THEN limiter.min_delay_seconds - (now - limiter.last_call)
                   ELSE 0
           start == IF wait > 0 THEN now + wait ELSE now
       IN /\ now' = start
          /\ limiter' = [limiter EXCEPT !.has_last_call = TRUE,
                                        !.last_call = start]
          /\ calls' = Append(calls, [pk |-> cur[1].id, query |-> query[1],
                                     start |-> start, outcome |-> "pending",
                                     latitude |-> Null, longitude |-> Null])
    /\ pc' = "inflight"
    /\ UNCHANGED <<table, columns, location, delay, run, prev, rows, count,
                   pos, cur, query, pair, done, errors, out, ei, exception,
                   startTable, yielded, updates>>

\* the provider call returns (or raises), and geocode_list classifies the
\* outcome: on a result it sets the row's coordinates and geocoder; it yields
\* (row, success)
Classify(row, outcome, coords) ==
    IF outcome = "Found"
    THEN [row |-> [c \in DOMAIN row |->
                      CASE c = LatCol -> coords.latitude
                        [] c = LonCol -> coords.longitude
                        [] c = GeoCol -> ProviderName
                        [] OTHER -> row[c]],
          success |-> TRUE]
    ELSE [row |-> row, success |-> FALSE]

ProviderReturn_SkipFailed ==
    /\ pc = "inflight"
    /\ \E outcome \in Outcomes, dur \in 0..MaxDur, coords \in FoundCoords :
          LET p == Classify(cur[1], outcome, coords)
              n == Len(calls)
          IN /\ now' = now + dur
             /\ calls' = [calls EXCEPT
                   ![n].outcome = outcome,
                   ![n].latitude = IF outcome = "Found"
                                   THEN coords.latitude ELSE Null,
                   ![n].longitude = IF outcome = "Found"
                                    THEN coords.longitude ELSE Null]
             /\ IF p.success
                THEN /\ pair' = <<p>>
                     /\ yielded' = Append(yielded, p)
                     /\ pc' = "handle"
                ELSE /\ pair' = <<>>
                     /\ yielded' = yielded
                     /\ pc' = "next"
    /\ cur' = <<>>
    /\ query' = <<>>
    /\ UNCHANGED <<table, columns, location, delay, run, prev, limiter, rows,
                   count, pos, done, errors, out, ei, exception, startTable,
                   updates>>

ProviderReturn ==
    /\ pc = "inflight"
    /\ \E outcome \in Outcomes, dur \in 0..MaxDur, coords \in FoundCoords :
          LET p == Classify(cur[1], outcome, coords)
              n == Len(calls)
          IN /\ now' = now + dur
             /\ calls' = [calls EXCEPT
                   ![n].outcome = outcome,
                   ![n].latitude = IF outcome = "Found"
                                   THEN coords.latitude ELSE Null,
                   ![n].longitude = IF outcome = "Found"
                                    THEN coords.longitude ELSE Null]
             /\ pair' = <<p>>
             /\ yielded' = Append(yielded, p)
    /\ pc' = "handle"
    /\ cur' = <<>>
    /\ query' = <<>>
    /\ UNCHANGED <<table, columns, location, delay, run, prev, limiter, rows,
                   count, pos, done, errors, out, ei, exception, startTable,
                   updates>>

\* table.update(pk_values, updates): one UPDATE statement that sets the given
\* columns of the row with that primary key
update(tbl, pks, row) ==
    [tbl EXCEPT ![pks[1]] =
        [c \in DOMAIN tbl[pks[1]] |->
            IF c \in DOMAIN row THEN row[c] ELSE tbl[pks[1]][c]]]

\* lines 107-113: the body of the for loop over the yielded pairs
HandleWith(pks, row, success, write) ==
    /\ pc = "handle"
    /\ IF write
       THEN table' = update(table, pks, row)
       ELSE table' = table
    /\ updates' = IF write THEN Append(updates, pks) ELSE updates
    /\ IF success
       THEN /\ done' = done + 1
            /\ errors' = errors
       ELSE /\ done' = done
            /\ errors' = Append(errors, pks)
    /\ pair' = <<>>
    /\ pc' = "next"
    /\ UNCHANGED <<columns, location, delay, run, prev, now, limiter, rows,
                   count, pos, cur, query, out, ei, exception, startTable,
                   calls, yielded>>

ConsumerHandle_NoUpdate ==
    /\ pc = "handle"
    /\ LET row == pair[1].row
           success == pair[1].success
           pks == <<row.id>>
       IN HandleWith(pks, row, success, FALSE)

ConsumerHandle_Inverted ==
    /\ pc = "handle"
    /\ LET row == pair[1].row
           success == pair[1].success
           pks == <<row.id>>
       IN HandleWith(pks, row, success, ~success)

ConsumerHandle_HalfWrite ==
    /\ pc = "handle"
    /\ LET row == pair[1].row
           success == pair[1].success
           pks == <<row.id>>
       IN HandleWith(pks, [c \in DOMAIN row \ {LonCol} |-> row[c]], success,
                     success)

ConsumerHandle_FirstPk ==
    /\ pc = "handle"
    /\ LET row == pair[1].row
           success == pair[1].success
           pks == <<rows[1].id>>
       IN HandleWith(pks, [c \in DOMAIN row \ {"id"} |-> row[c]], success,
                     success)

ConsumerHandle_RaiseOnFailure ==
    /\ pc = "handle"
    /\ LET row == pair[1].row
           success == pair[1].success
           pks == <<row.id>>
       IN IF success
          THEN HandleWith(pks, row, success, success)
          ELSE /\ pc' = "aborted"
               /\ exception' = "GeocodeError"
               /\ UNCHANGED <<table, columns, location, delay, run, prev, now,
                              limiter, rows, count, pos, cur, query, pair,
                              done, errors, out, ei, startTable, calls,
                              yielded, updates>>

ConsumerHandle_Batched ==
    /\ pc = "handle"
    /\ pair' = <<>>
    /\ pc' = "next"
    /\ UNCHANGED <<table, columns, location, delay, run, prev, now, limiter,
                   rows, count, pos, cur, query, done, errors, out, ei,
                   exception, startTable, calls, yielded, updates>>

ConsumerHandle_NoErrors ==
    /\ pc = "handle"
    /\ LET row == pair[1].row
           success == pair[1].success
           pks == <<row.id>>
       IN HandleWith(pks, row, TRUE, success)

ConsumerHandle_UpdateAll ==
    /\ pc = "handle"
    /\ LET row == pair[1].row
           success == pair[1].success
           pks == <<row.id>>
       IN /\ table' = IF success
                      THEN [pk \in DOMAIN table |->
                              [c \in DOMAIN table[pk] |->
                                  IF c \in GeoColumns THEN row[c]
                                  ELSE table[pk][c]]]
                      ELSE table
          /\ updates' = IF success THEN Append(updates, pks) ELSE updates
          /\ done' = IF success THEN done + 1 ELSE done
          /\ errors' = IF success THEN errors ELSE Append(errors, pks)
    /\ pair' = <<>>
    /\ pc' = "next"
    /\ UNCHANGED <<columns, location, delay, run, prev, now, limiter, rows,
                   count, pos, cur, query, out, ei, exception, startTable,
                   calls, yielded>>

ConsumerHandle ==
    /\ pc = "handle"
    /\ LET row == pair[1].row
           success == pair[1].success
           pks == <<row.id>>
       IN HandleWith(pks, row, success, success)

\* lines 106-113 have no handler: an exception raised by the generator leaves
\* geocode()
UncaughtInLoop_Swallowed ==
    /\ pc = "raised"
    /\ errors' = Append(errors, <<cur[1].id>>)
    /\ pc' = "next"
    /\ UNCHANGED <<table, columns, location, delay, run, prev, now, limiter,
                   rows, count, pos, cur, query, pair, done, out, ei,
                   exception, startTable, calls, yielded, updates>>

UncaughtInLoop ==
    /\ pc = "raised"
    /\ pc' = "aborted"
    /\ UNCHANGED <<table, columns, location, delay, run, prev, now, limiter,
                   rows, count, pos, cur, query, pair, done, errors, out, ei,
                   exception, startTable, calls, yielded, updates>>

\* an external interrupt while the for loop runs
Interrupt ==
    /\ pc \in {"next", "wait", "inflight", "handle"}
    /\ pc' = "interrupted"
    /\ exception' = "KeyboardInterrupt"
    /\ UNCHANGED <<table, columns, location, delay, run, prev, now, limiter,
                   rows, count, pos, cur, query, pair, done, errors, out, ei,
                   startTable, calls, yielded, updates>>

\* lines 115-117: the count of geocoded rows, and the header of the failures
EchoCount ==
    /\ pc = "summary"
    /\ out' = Append(out, [kind |-> "count", n |-> done, pk |-> <<>>,
                           text |-> <<>>])
    /\ IF errors = <<>>
       THEN pc' = "finished" /\ ei' = ei
       ELSE pc' = "report" /\ ei' = 1
    /\ UNCHANGED <<table, columns, location, delay, run, prev, now, limiter,
                   rows, count, pos, cur, query, pair, done, errors,
                   exception, startTable, calls, yielded, updates>>

\* lines 118-120: one line per failed primary key
ReportLine ==
    /\ pc = "report"
    /\ LET pk == errors[ei]
           row == table[pk[1]]
       IN IF SummaryFormats(location, row)
          THEN /\ out' = Append(out, [kind |-> "failed", n |-> 0, pk |-> pk,
                                      text |-> SummaryFormat(location, row)])
               /\ ei' = ei + 1
               /\ pc' = IF ei = Len(errors) THEN "finished" ELSE "report"
               /\ UNCHANGED exception
          ELSE /\ pc' = "crashed"
               /\ exception' = "KeyError"
               /\ UNCHANGED <<out, ei>>
    /\ UNCHANGED <<table, columns, location, delay, run, prev, now, limiter,
                   rows, count, pos, cur, query, pair, done, errors,
                   startTable, calls, yielded, updates>>

\* the command is invoked again on the same database
Terminal == {"finished", "interrupted", "aborted", "crashed"}

AllFound == \A i \in 1..Len(calls) : calls[i].outcome = "Found"

StartNextRun ==
    /\ pc \in Terminal
    /\ run < MaxRuns
    /\ run' = run + 1
    /\ prev' = [status |-> pc, allFound |-> AllFound]
    /\ pc' = "start"
    /\ now' = 0
    /\ limiter' = NoLimiter
    /\ rows' = <<>>
    /\ count' = 0
    /\ pos' = 0
    /\ cur' = <<>>
    /\ query' = <<>>
    /\ pair' = <<>>
    /\ done' = 0
    /\ errors' = <<>>
    /\ out' = <<>>
    /\ ei' = 0
    /\ exception' = "none"
    /\ startTable' = table
    /\ calls' = <<>>
    /\ yielded' = <<>>
    /\ updates' = <<>>
    /\ UNCHANGED <<table, columns, location, delay>>

Next ==
    \/ PrepareSchema
    \/ CreateLimiter
    \/ SelectRows
    \/ GenNext
    \/ Dispatch
    \/ ProviderReturn
    \/ ConsumerHandle
    \/ UncaughtInLoop
    \/ Interrupt
    \/ EchoCount
    \/ ReportLine
    \/ StartNextRun

Spec == Init /\ [][Next]_vars

\* one invocation that nothing interrupts: Python runs geocode() to its end
LiveNext ==
    \/ PrepareSchema
    \/ CreateLimiter
    \/ SelectRows
    \/ GenNext
    \/ Dispatch
    \/ ProviderReturn
    \/ ConsumerHandle
    \/ UncaughtInLoop
    \/ EchoCount
    \/ ReportLine

LiveSpec == Init /\ [][LiveNext]_vars /\ WF_vars(LiveNext)

TypeOK ==
    /\ pc \in {"start", "limiter", "select", "next", "wait", "inflight",
               "handle", "raised", "summary", "report"} \cup Terminal
    /\ run \in 1..MaxRuns
    /\ done \in 0..NumRows
    /\ pos \in 0..NumRows
    /\ Len(calls) <= NumRows

\* ------------------------------------------------------- shared notions
\* select_ungeocoded has returned in this run
Selected == pc \notin {"start", "limiter", "select"} /\ exception # "SchemaError"

\* the for loop ended normally and the summary began
LoopDone == pc \in {"summary", "report", "finished", "crashed"}

RowPks == {rows[i].id : i \in 1..Len(rows)}

LacksCoord(row) == Coord(row, LatCol) = Null \/ Coord(row, LonCol) = Null

\* pairs the for loop body has finished handling
Handled == done + Len(errors)

Failures == {i \in 1..Len(calls) : calls[i].outcome \in {"NotFound", "Error"}}

\* ------------------------------------------------------------------ C1
\* C1: a row is in the sequence returned by select_ungeocoded if and only if
\* its latitude is null or its longitude is null when the run starts; the
\* sequence holds each such row once and count is its length.
C1_RowSelection ==
    Selected =>
        /\ \A pk \in PKs : (pk \in RowPks) <=> LacksCoord(startTable[pk])
        /\ Cardinality(RowPks) = Len(rows)
        /\ count = Len(rows)

C1_Witness ==
    /\ Selected
    /\ \E pk \in PKs : /\ Coord(startTable[pk], LatCol) # Null
                       /\ Coord(startTable[pk], LonCol) = Null
                       /\ pk \in RowPks
    /\ \E pk \in PKs : /\ ~LacksCoord(startTable[pk])
                       /\ pk \notin RowPks

\* ------------------------------------------------------------------ C2
\* C2: a run that follows a run completed with only Found outcomes selects no
\* row and calls the provider never; and in every run, a row sent to the
\* provider lacked a coordinate when the run started.
C2_Idempotence ==
    /\ (Selected /\ prev.status = "finished" /\ prev.allFound) =>
            (rows = <<>> /\ count = 0 /\ calls = <<>>)
    /\ \A i \in 1..Len(calls) : LacksCoord(startTable[calls[i].pk])

C2_Witness ==
    /\ run = 2
    /\ prev.status = "finished"
    /\ prev.allFound
    /\ pc = "finished"
    /\ \E pk \in PKs : startTable[pk][GeoCol] = ProviderName

\* ------------------------------------------------------------------ C3
\* C3: the starts of two consecutive provider calls of a run are at least
\* delay apart, so the calls span at least (N-1)*delay; every call is made
\* through the run's one limiter, whose last-call time is the start of the
\* latest call and is never reset.
C3_RateLimit ==
    /\ \A i \in 1..(Len(calls) - 1) :
            calls[i + 1].start - calls[i].start >= delay
    /\ Len(calls) > 0 =>
            /\ calls[Len(calls)].start - calls[1].start
                    >= (Len(calls) - 1) * delay
            /\ limiter.created
            /\ limiter.has_last_call
            /\ limiter.last_call = calls[Len(calls)].start

C3_Witness ==
    /\ delay > 0
    /\ Len(calls) >= 2
    /\ calls[2].start - calls[1].start = delay
    /\ now = calls[2].start

\* ------------------------------------------------------------------ C4
\* C4: when the loop has ended and the provider failed on exactly one selected
\* row k, exactly one yielded pair has success = false, it is the pair of row
\* k, row k's stored coordinates are those it had before the run, and every
\* other selected row is stored with the coordinates the provider found.
C4_FailureIsolation ==
    (LoopDone /\ Cardinality(Failures) = 1) =>
        LET k == CHOOSE i \in Failures : TRUE
        IN /\ {i \in 1..Len(yielded) : ~yielded[i].success} = {k}
           /\ yielded[k].row.id = calls[k].pk
           /\ errors = <<(<<calls[k].pk>>)>>
           /\ table[calls[k].pk][LatCol] = Coord(startTable[calls[k].pk], LatCol)
           /\ table[calls[k].pk][LonCol] = Coord(startTable[calls[k].pk], LonCol)
           /\ \A i \in 1..Len(rows) :
                 i # k =>
                    /\ table[rows[i].id][LatCol] = calls[i].latitude
                    /\ table[rows[i].id][LonCol] = calls[i].longitude
                    /\ table[rows[i].id][LatCol] # Null
                    /\ table[rows[i].id][LonCol] # Null

C4_Witness ==
    /\ LoopDone
    /\ Len(rows) = 3
    /\ Failures = {2}
    /\ done = 2

\* ------------------------------------------------------------------ C5
StoredAsBefore(pk) ==
    \A c \in DOMAIN table[pk] : table[pk][c] = Coord(startTable[pk], c)

StoredAsFound(pk) ==
    \E i \in 1..Len(calls) :
        /\ calls[i].pk = pk
        /\ calls[i].outcome = "Found"
        /\ table[pk][LatCol] = calls[i].latitude
        /\ table[pk][LonCol] = calls[i].longitude

\* the rows that still lack coordinates are selected by the run that follows an
\* interrupted run, and are all dispatched when its loop ends
Resumes ==
    (prev.status = "interrupted" /\ Selected) =>
        /\ RowPks = {pk \in PKs : LacksCoord(startTable[pk])}
        /\ LoopDone => {calls[i].pk : i \in 1..Len(calls)} = RowPks

\* C5 as stated: after an interruption every already-processed row is durably
\* geocoded, every unprocessed row is unchanged, no row is half-written, and
\* the next run selects and processes the rows that still lack coordinates.
C5_Original ==
    /\ pc = "interrupted" =>
        /\ \A i \in 1..Len(rows) :
              IF i <= Handled
              THEN ~LacksCoord(table[rows[i].id])
              ELSE StoredAsBefore(rows[i].id)
        /\ \A pk \in PKs : StoredAsBefore(pk) \/ StoredAsFound(pk)
    /\ Resumes

\* C5 (amended): after an interruption every already-processed row whose pair
\* had success = true is stored with both coordinates as yielded, every other
\* row (processed with a failure, or unprocessed) is unchanged from its
\* pre-run value, no row is half-written, and the next run selects and
\* processes the rows that still lack coordinates.
C5_InterruptSafe ==
    /\ pc = "interrupted" =>
        /\ \A i \in 1..Len(rows) :
              IF i <= Handled /\ yielded[i].success
              THEN /\ table[rows[i].id] = yielded[i].row
                   /\ ~LacksCoord(table[rows[i].id])
              ELSE StoredAsBefore(rows[i].id)
        /\ \A pk \in PKs : StoredAsBefore(pk) \/ StoredAsFound(pk)
    /\ Resumes

C5_Witness ==
    /\ pc = "interrupted"
    /\ Len(rows) = 3
    /\ Handled = 2
    /\ done = 1
    /\ Len(yielded) = 3
    /\ yielded[3].success

\* ------------------------------------------------------------------ C6
\* C6: a row whose provider outcome is Found{lat, lon} is yielded as (row, true),
\* and once the loop body has handled the pair the stored row with that primary
\* key has latitude = lat, longitude = lon and geocoder = the provider's name.
C6_WriteBack ==
    \A i \in 1..Len(yielded) :
        calls[i].outcome = "Found" =>
            /\ yielded[i].success
            /\ yielded[i].row.id = calls[i].pk
            /\ i <= Handled =>
                /\ table[calls[i].pk][LatCol] = calls[i].latitude
                /\ table[calls[i].pk][LonCol] = calls[i].longitude
                /\ table[calls[i].pk][GeoCol] = ProviderName
                /\ table[calls[i].pk]["id"] = calls[i].pk

C6_Witness ==
    /\ Handled = 2
    /\ calls[1].outcome = "NotFound"
    /\ calls[2].outcome = "Found"
    /\ Coord(startTable[calls[2].pk], LatCol) = OldLat
    /\ table[calls[2].pk][LatCol] # OldLat

\* ------------------------------------------------------------------ C7
\* C7: when the template references a column the current row lacks, the run
\* stops with TemplateError at that row: no pair is yielded and no provider
\* call is made for that row or a later one, the row is not recorded in
\* errors, and the summary is not printed.
C7_TemplateFatal ==
    /\ exception = "TemplateError" =>
        /\ pc \in {"raised", "aborted"}
        /\ ~Renders(location, cur[1])
        /\ cur[1] = rows[pos]
        /\ Len(yielded) = pos - 1
        /\ Len(calls) = pos - 1
        /\ Handled = pos - 1
        /\ \A i \in pos..Len(rows) :
              \A j \in 1..Len(errors) : errors[j] # <<rows[i].id>>
        /\ out = <<>>
    /\ \A i \in 1..Len(calls) : Renders(location, rows[i])
    /\ \A i \in 1..Len(yielded) : Renders(location, rows[i])

C7_Witness ==
    /\ pc = "aborted"
    /\ exception = "TemplateError"
    /\ Len(rows) >= 2
    /\ calls = <<>>

\* ------------------------------------------------------------------ C8
\* C8: the i-th yielded pair is for the i-th row of the selector's sequence,
\* and when the loop has ended there is exactly one pair per selected row,
\* whatever the provider outcomes were.
C8_OrderPreserved ==
    /\ Len(yielded) <= Len(rows)
    /\ \A i \in 1..Len(yielded) : yielded[i].row.id = rows[i].id
    /\ Len(yielded) =
          Cardinality({i \in 1..Len(calls) : calls[i].outcome # "pending"})
    /\ LoopDone => Len(yielded) = Len(rows)

C8_Witness ==
    /\ LoopDone
    /\ Len(yielded) = 3
    /\ yielded[1].success
    /\ ~yielded[2].success
    /\ yielded[3].success

\* ------------------------------------------------------------------ C9
SummaryLines ==
    <<[kind |-> "count", n |-> done, pk |-> <<>>, text |-> <<>>]>>
    \o [i \in 1..Len(errors) |->
            [kind |-> "failed", n |-> 0, pk |-> errors[i],
             text |-> Render(location, table[errors[i][1]])]]

\* C9: after the loop the run prints the count of geocoded rows and then one
\* line per failed row with its primary key and the template rendered against
\* the row's fields, and the summary never ends in an error.
C9_Summary ==
    /\ pc # "crashed"
    /\ pc = "finished" => out = SummaryLines

\* ----------------------------------------------------------------- C10
RendersAll == \A i \in 1..Len(rows) : Renders(location, rows[i])

\* C10: whatever the provider outcomes, once the rows are selected and the
\* template renders, the run reaches the summary with every selected row
\* dispatched, and a failed row never ends the run.
C10_FailuresNeverAbort ==
    /\ (pc = "next" /\ pos = 0 /\ RendersAll)
          ~> (pc = "summary" /\ Len(calls) = Len(rows) /\ pos = Len(rows))
    /\ [](Failures # {} => pc \notin {"raised", "aborted"})

C10_Witness ==
    /\ pc = "summary"
    /\ Len(rows) = 3
    /\ Len(calls) = 3
    /\ calls[1].outcome = "Error"
    /\ calls[2].outcome = "NotFound"
    /\ calls[3].outcome = "Found"

\* ----------------------------------------------------------------- C12
Pending == {i \in 1..Len(calls) : calls[i].outcome = "pending"}

\* C12: at most one provider request is in flight, and it is the latest one;
\* when the provider is invoked for a row, the loop body has already handled
\* every earlier row: its update is in the table or its primary key is in
\* errors.
C12_Interleaved ==
    /\ Cardinality(Pending) <= 1
    /\ Pending \subseteq {Len(calls)}
    /\ Pending # {} => pc \in {"inflight", "interrupted"}
    /\ done + Len(errors) >= Len(calls) - 1
    /\ \A j \in 1..(Len(calls) - 1) :
          /\ j <= Len(yielded)
          /\ IF yielded[j].success
             THEN table[rows[j].id] = yielded[j].row
             ELSE \E e \in 1..Len(errors) : errors[e] = <<rows[j].id>>

C12_Witness ==
    /\ pc = "inflight"
    /\ Len(calls) = 3
    /\ done = 1
    /\ Len(errors) = 1
    /\ Pending = {3}

\* ----------------------------------------------------------------- C13
\* C13: before rows are selected or the provider is called, the latitude,
\* longitude and geocoder columns exist in every stored row; preparing them
\* changes no value of a column that existed, and a new column is null; when
\* preparation fails the run is aborted with no row selected, no provider call
\* and no update.
C13_SchemaFirst ==
    /\ (pc = "select" \/ Selected \/ calls # <<>>) =>
            /\ GeoColumns \subseteq columns
            /\ \A pk \in PKs : DOMAIN table[pk] = columns
    /\ pc \in {"limiter", "select"} =>
            \A pk \in PKs : StoredAsBefore(pk)
    /\ exception = "SchemaError" =>
            /\ pc = "aborted"
            /\ rows = <<>>
            /\ calls = <<>>
            /\ yielded = <<>>
            /\ updates = <<>>
            /\ done = 0
            /\ \A pk \in PKs : StoredAsBefore(pk)

C13_Witness ==
    /\ pc = "select"
    /\ GeoCol \notin DOMAIN startTable[1]
    /\ LatCol \in DOMAIN startTable[1]
    /\ table[1][LatCol] = OldLat
    /\ table[1][GeoCol] = Null

\* ----------------------------------------------------------------- C14
\* pairs the for loop has taken from the generator and finished handling
Consumed == Len(yielded) - Len(pair)

IsSuccess(p) == p.success

IsFailure(p) == ~p.success

PksOf(pairs) == [i \in 1..Len(pairs) |-> <<pairs[i].row.id>>]

\* C14: after every consumed pair, done + len(errors) is the number of pairs
\* consumed, table.update was called once per success pair and never for a
\* failure pair, errors holds the primary keys of the failure pairs in the
\* order they were yielded, and at the end of the loop done + len(errors) is
\* the count returned by select_ungeocoded.
C14_Accounting ==
    LET consumed == SubSeq(yielded, 1, Consumed)
    IN /\ done + Len(errors) = Consumed
       /\ done = Len(updates)
       /\ updates = PksOf(SelectSeq(consumed, IsSuccess))
       /\ errors = PksOf(SelectSeq(consumed, IsFailure))
       /\ LoopDone => done + Len(errors) = count

C14_Witness ==
    /\ LoopDone
    /\ count = 3
    /\ done = 1
    /\ errors = <<(<<1>>), (<<3>>)>>

\* ----------------------------------------------------------------- C15
\* C15: at every point of a run, a row that had both coordinates when the run
\* started and a selected row whose outcome was a failure are stored as before
\* the run; a row stored differently is a selected row whose pair had
\* success = true and holds that pair's row; every update is keyed on the
\* primary key of such a row, and no key is updated twice.
C15_Frame ==
    /\ \A pk \in PKs : ~LacksCoord(startTable[pk]) => StoredAsBefore(pk)
    /\ \A i \in Failures : StoredAsBefore(calls[i].pk)
    /\ \A pk \in PKs :
          ~StoredAsBefore(pk) =>
              \E i \in 1..Len(yielded) :
                  /\ yielded[i].success
                  /\ yielded[i].row.id = pk
                  /\ pk \in RowPks
                  /\ table[pk] = yielded[i].row
    /\ \A j \in 1..Len(updates) :
          /\ \E i \in 1..Len(yielded) :
                yielded[i].success /\ updates[j] = <<yielded[i].row.id>>
          /\ \A k \in 1..Len(updates) : updates[j] = updates[k] => j = k

C15_Witness ==
    /\ pc = "interrupted"
    /\ Len(rows) = 2
    /\ done = 1
    /\ Len(errors) = 1
    /\ \E pk \in PKs : pk \notin RowPks /\ table[pk][LatCol] = OldLat

\* ----------------------------------------------------------------- C16
Lacking(tbl) == Cardinality({pk \in PKs : LacksCoord(tbl[pk])})

\* C16: the number of stored rows that lack a coordinate never increases; it
\* drops by exactly one when a success pair is persisted and is unchanged by a
\* failure pair, so when the loop has ended it is the number at the start of the
\* run minus done.
C16_Monotone ==
    /\ [][/\ Lacking(table') <= Lacking(table)
          /\ done' = done + 1 => Lacking(table') = Lacking(table) - 1
          /\ Len(errors') = Len(errors) + 1 => Lacking(table') = Lacking(table)
         ]_vars
    /\ [](LoopDone => Lacking(table) = Lacking(startTable) - done)

C16_Witness ==
    /\ LoopDone
    /\ Lacking(startTable) = 3
    /\ Lacking(table) = 1
    /\ done = 2
    /\ Len(errors) = 1

====
